---- MODULE Spec2Model ----
(***************************************************************************)
(* Model of util/uring/uring_file.cc: the io_uring backed file             *)
(* abstractions ReadFileImpl, WriteFileImpl and LinuxFileImpl, the helper   *)
(* functions CloseFile, ReadSomeInternal, WriteSomeInternal and ReadAll,    *)
(* the factories OpenRead, OpenWrite and OpenLinux, and LinuxFile::Write    *)
(* and LinuxFile::Read.                                                     *)
(*                                                                          *)
(* Every FiberCall (Prep..., then fc.Get()) is split into the step that     *)
(* submits the operation and suspends the fiber, and the step that resumes  *)
(* it with the completion result io_res chosen by the engine.  The          *)
(* operations submitted to the engine are kept in the log `ops`.            *)
(*                                                                          *)
(* Spec follows one file object from its factory (OpenRead, OpenWrite,      *)
(* OpenLinux) through its calls to its destructor; one Read is followed     *)
(* per object.  SpecRead follows a single Read, over longer buffer lists,   *)
(* on a ReadFileImpl that is open or has been closed.  SpecSize follows a   *)
(* read-only file whose underlying file is changed from outside.  SpecExact *)
(* follows one LinuxFile::Write or LinuxFile::Read.  SpecFibers and         *)
(* SpecInflight add a second cooperative unit that calls into the same      *)
(* object while the first is suspended: Close and WriteSome from both units *)
(* (SpecFibers), OpenRead and Read in the first while the second calls      *)
(* Close (SpecInflight).                                                    *)
(*                                                                          *)
(* A completion transfers at most the bytes its operation asked for, and a  *)
(* read may complete short, or with zero bytes, at any offset.  A store the *)
(* kernel makes past the end of a buffer entry is recorded in `oob`.  The   *)
(* byte at file offset k has the value k.  DCHECKs are compiled in or not   *)
(* (`debug`).                                                               *)
(***************************************************************************)
EXTENDS Integers, Sequences, FiniteSets, TLC

\* ---------------------------------------------------------------- bounds
MaxIov == 2          \* longest buffer list (iovcnt) of a Read followed on its own
MaxEntry == 3        \* longest buffer entry (iov_len) of such a Read
MaxOffset == 1       \* largest offset argument
FileSize == 8        \* no completion transfers bytes at or past this offset
MaxErrno == 1        \* error codes are 1..MaxErrno
MaxFd == 1           \* descriptors returned by open are 0..MaxFd
MaxCalls == 3        \* calls that return during the life of one file object
MaxIo == 1           \* ReadSome/WriteSome calls made on one LinuxFileImpl
MaxWIov == 1         \* longest buffer list during the life of a file object
MaxWEntry == 2       \* length of the non-empty entries of those lists
MaxSize == 1         \* the underlying file is 0..MaxSize bytes long
MaxTries == 4        \* operations after which no zero-byte transfer is retried
MaxOther == 1        \* calls the second cooperative unit makes
MaxShared == 3       \* calls of the first unit that return while a second unit exists

VARIABLES
    kind,       \* which abstraction the object is: "read", "write", "linux"
    alive,      \* the object has been constructed and not yet destroyed
    fd_,        \* the object's descriptor (fd_ member)
    offs_,      \* WriteFileImpl::offs_
    debug,      \* TRUE when DCHECKs are compiled in (no NDEBUG)
    pc,         \* where the fiber is
    iov,        \* iov_len of the entries of the caller's buffer list
    offset,     \* the offset argument of the call
    rd,         \* locals of ReadFileImpl::Read
    ra,         \* locals of ReadAll
    mem,        \* mem[i][p]: the file offset of the byte stored in entry i
                \* at position p (1-based), -1 when nothing was stored
    oob,        \* stores the kernel made past the end of an entry
    ops,        \* log of the operations submitted to the engine
    hist,       \* the calls that returned: what was called, what it returned
                \* and how long the log ops was at that point
    errno,      \* the thread's errno
    created,    \* OpenRead: a ReadFileImpl was constructed
    st_size,    \* the length of the underlying file, as fstat reports it
    sb,         \* OpenRead: sb.st_size, -1 before fstat filled it in
    file_size_, \* ReadFileImpl::file_size_, -1 while no object was constructed
    cb,         \* LinuxFile::Write / Read: the offset captured by the callback
    ae,         \* locals of the exact-transfer driver the callback is given to
    other       \* a second cooperative unit that calls into the same object

vars == <<kind, alive, fd_, offs_, debug, pc, iov, offset, rd, ra, mem, oob, ops,
          hist, errno, created, st_size, sb, file_size_, cb, ae, other>>

\* ------------------------------------------------------------ value sets
Errnos == 1..MaxErrno
NegResults == {-e : e \in Errnos}
Offsets == 0..MaxOffset
BufLists == UNION {[1..n -> 0..MaxEntry] : n \in 0..MaxIov}

Min(a, b) == IF a < b THEN a ELSE b
Max(a, b) == IF a > b THEN a ELSE b

\* sum of the iov_len of entries a..b of list s
RECURSIVE SumLen(_, _, _)
SumLen(s, a, b) == IF a > b THEN 0 ELSE s[a] + SumLen(s, a + 1, b)

TotalLen(s) == SumLen(s, 1, Len(s))

\* ------------------------------------------------------- results, errors
NoRet == [kind |-> "none", val |-> 0]
Value(n) == [kind |-> "value", val |-> n]

\* error_code{-io_res, system_category()}
ErrorCode_neg(io_res) == io_res
ErrorCode(io_res) == -io_res

MakeUnexpected(code) == [kind |-> "error", val |-> code]

\* error_code{}
NoError == [kind |-> "ok", val |-> 0]

\* if (io_res < 0)
IsError_le(io_res) == io_res <= 0
IsError(io_res) == io_res < 0

\* ----------------------------------------------------------- the engine
\* one submitted operation; done/res are filled in by its completion
Op(k, fd, off, first, cnt, nbytes) ==
    [kind |-> k, fd |-> fd, off |-> off, v |-> first, cnt |-> cnt,
     next |-> 0, n |-> nbytes, done |-> FALSE, res |-> 0]

Submit(op) == Append(ops, op)

Pending == Len(ops) > 0 /\ ~ops[Len(ops)].done

Complete_unseen(io_res) == ops
Complete(io_res) == [ops EXCEPT ![Len(ops)].done = TRUE, ![Len(ops)].res = io_res]

\* the call `call` returned r when the log was `log`
Returns(call, r, log) == Append(hist, [call |-> call, ret |-> r, at |-> Len(log)])

\* what the last call returned
ret == IF hist = <<>> THEN NoRet ELSE hist[Len(hist)].ret

\* byte counts a read of n bytes at file offset off can complete with
ReadCounts(n, off) == 0..Min(n, Max(0, FileSize - off))

\* ------------------------------------------------- kernel memory effects
EmptyMem(list) == [i \in 1..Len(list) |-> [p \in 1..list[i] |-> -1]]

\* preadv of r bytes at file offset off into entries first..Len(iov): the
\* entries are filled in order; the byte at file offset k has value k
ScatterV(m, first, r, off) ==
    [i \in DOMAIN m |->
        [p \in DOMAIN m[i] |->
            IF i >= first /\ SumLen(iov, first, i - 1) + p - 1 < r
            THEN off + SumLen(iov, first, i - 1) + p - 1
            ELSE m[i][p]]]

\* pread of r bytes at file offset off to address iov_base(i) + next
StoreRead(m, i, next, r, off) ==
    [m EXCEPT ![i] = [p \in DOMAIN m[i] |->
        IF p > next /\ p <= next + r THEN off + (p - next - 1) ELSE m[i][p]]]

\* the positions of that pread that lie past the end of entry i
PastEnd(i, next, r) == {<<i, p>> : p \in {q \in (next + 1)..(next + r) : q > iov[i]}}

\* --------------------------------------- ReadSomeInternal / WriteSomeInternal
\* CHECK_GE(fd, 0); CHECK_GT(iovcnt, 0u);
CheckFails(fd, iovcnt) == fd < 0 \/ iovcnt = 0

\* fc->PrepReadV(fd, iov, iovcnt, offset, flags) over entries first.. of list
ReadVOp(list, fd, first, iovcnt, off) ==
    Op("readv", fd, off, first, iovcnt, SumLen(list, first, first + iovcnt - 1))

\* ------------------------------------------------------------- ReadAll
\* the byte count handed to PrepRead(fd, next, len, offset): ReadAll passes
\* its parameter len on every iteration, whatever read_total is
ReadAllCount(len, read_total) == len

ReadOp(fd, i, next, len, off) ==
    [Op("read", fd, off, i, 1, len) EXCEPT !.next = next]

\* ------------------------------------------------- ReadFileImpl::Read
\* size_t read = *res; if (read == 0) return read_total;
IsEof_never(read) == FALSE
IsEof(read) == read = 0

\* offset + read_total, the offset of every operation Read issues
ReadOffset_fixed(off, read_total) == off
ReadOffset(off, read_total) == off + read_total

\* while (len && v->iov_len <= read) { --len; read -= v->iov_len; ++v; }
RECURSIVE Walk(_, _, _)
Walk(v, len, read) ==
    IF len > 0 /\ iov[v] <= read
    THEN Walk(v + 1, len - 1, read - iov[v])
    ELSE <<v, len, read>>

NoRd == [v |-> 1, len |-> 0, read_total |-> 0, read |-> 0, count |-> 0]
NoRa == [offset |-> 0, next |-> 0, len |-> 0, read_total |-> 0]

\* the driver is not running
NoAe == [what |-> "none", v |-> 1, next |-> 0, count |-> 0]

\* the second unit before it has called into the object.  pc: where it is;
\* ops: the operations it has submitted; calls: the calls it has made;
\* ret: what its last call returned; at: how many operations the first
\* unit had submitted, and how many of its calls had returned, when the
\* second unit's call began; raced: one of its calls was in progress at the
\* same time as a call of the first unit
NoOther == [pc |-> "idle", ops |-> <<>>, calls |-> 0, ret |-> NoRet,
            at |-> <<0, 0>>, raced |-> FALSE]

ReadFrame == UNCHANGED <<kind, alive, fd_, offs_, debug, errno, created,
                         st_size, sb, file_size_, cb, ae, other>>

\* Read has not been called on the object
NoReadYet == \A i \in 1..Len(hist) : hist[i].call # "Read"

\* Read up to its first suspension (one Read is followed per object)
Read_Enter(off, list) ==
    /\ pc = "idle" /\ kind = "read" /\ alive
    /\ Len(hist) < MaxCalls /\ NoReadYet
    /\ offset' = off
    /\ iov' = list
    /\ mem' = EmptyMem(list)
    /\ oob' = {}
    /\ ra' = NoRa
    /\ IF debug /\ fd_ < 0                       \* DCHECK_GE(fd_, 0)
       THEN pc' = "fatal" /\ UNCHANGED <<rd, ops, hist>>
       ELSE IF Len(list) = 0                     \* if (len == 0) return 0;
       THEN /\ pc' = "idle"
            /\ hist' = Returns("Read", Value(0), ops)
            /\ UNCHANGED <<rd, ops>>
       ELSE IF CheckFails(fd_, Len(list))
       THEN pc' = "fatal" /\ UNCHANGED <<rd, ops, hist>>
       ELSE /\ pc' = "readv"
            /\ rd' = [NoRd EXCEPT !.len = Len(list)]
            /\ ops' = Submit(ReadVOp(list, fd_, 1, Len(list), ReadOffset(off, 0)))
            /\ hist' = hist
    /\ ReadFrame

\* } while (len > 0); return read_total;   (ops0: the log so far)
LoopOrReturn(nrd, ops0) ==
    IF nrd.len > 0 /\ CheckFails(fd_, nrd.len)   \* ReadSomeInternal's CHECKs
    THEN /\ pc' = "fatal"
         /\ ops' = ops0
         /\ hist' = hist
    ELSE IF nrd.len > 0
    THEN /\ pc' = "readv"
         /\ ops' = Append(ops0, ReadVOp(iov, fd_, nrd.v, nrd.len,
                                        ReadOffset(offset, nrd.read_total)))
         /\ hist' = hist
    ELSE /\ pc' = "idle"
         /\ ops' = ops0
         /\ hist' = Returns("Read", Value(nrd.read_total), ops0)

\* Read resumed with the result of ReadSomeInternal's PrepReadV
ReadV_Complete(io_res) ==
    /\ pc = "readv" /\ Pending
    /\ LET op == ops[Len(ops)]
           done == Complete(io_res)
       IN IF IsError(io_res)
          THEN /\ pc' = "idle"
               /\ hist' = Returns("Read", MakeUnexpected(ErrorCode(io_res)), done)
               /\ ops' = done
               /\ UNCHANGED <<rd, ra, mem, oob>>
          ELSE IF IsEof(io_res)                  \* if (read == 0) return read_total;
          THEN /\ pc' = "idle"
               /\ hist' = Returns("Read", Value(rd.read_total), done)
               /\ ops' = done
               /\ UNCHANGED <<rd, ra, mem, oob>>
          ELSE LET total == rd.read_total + io_res
                   w == Walk(rd.v, rd.len, io_res)
                   nrd == [rd EXCEPT !.read_total = total, !.v = w[1],
                                     !.len = w[2], !.read = w[3]]
               IN /\ mem' = ScatterV(mem, op.v, io_res, op.off)
                  /\ oob' = oob
                  \* DCHECK_GT(len, 0u) holds: io_res is at most the bytes of
                  \* the entries v.., so entries are left when read > 0
                  /\ IF nrd.read > 0             \* we read through part of the entry
                     THEN LET count == iov[nrd.v] - nrd.read
                              nra == [offset |-> ReadOffset(offset, total),
                                      next |-> nrd.read, len |-> count,
                                      read_total |-> 0]
                          IN /\ rd' = [nrd EXCEPT !.count = count]
                             /\ ra' = nra
                             /\ pc' = "readall"
                             /\ hist' = hist
                             /\ ops' = Append(done,
                                   ReadOp(fd_, nrd.v, nra.next,
                                          ReadAllCount(nra.len, 0), nra.offset))
                     ELSE /\ rd' = nrd
                          /\ ra' = ra
                          /\ LoopOrReturn(nrd, done)
    /\ UNCHANGED <<iov, offset>>
    /\ ReadFrame

\* Read resumed with the result of a PrepRead of ReadAll
ReadAll_Complete(io_res) ==
    /\ pc = "readall" /\ Pending
    /\ LET op == ops[Len(ops)]
           done == Complete(io_res)
           \* Read after res = ReadAll(...) returned the value n
           AfterReadAll(n) ==
               LET total == rd.read_total + n
               IN IF n < rd.count                \* eof
                  THEN /\ pc' = "idle"
                       /\ hist' = Returns("Read", Value(total), done)
                       /\ ops' = done
                       /\ rd' = [rd EXCEPT !.read_total = total]
                  ELSE LET nrd == [rd EXCEPT !.read_total = total,
                                             !.v = rd.v + 1, !.len = rd.len - 1]
                       IN rd' = nrd /\ LoopOrReturn(nrd, done)
       IN IF IsError(io_res)
          THEN /\ pc' = "idle"
               /\ hist' = Returns("Read", MakeUnexpected(ErrorCode(io_res)), done)
               /\ ops' = done
               /\ UNCHANGED <<rd, ra, mem, oob>>
          ELSE /\ mem' = StoreRead(mem, op.v, op.next, io_res, op.off)
               /\ oob' = oob \cup PastEnd(op.v, op.next, io_res)
               /\ IF io_res = 0                  \* return read_total;
                  THEN ra' = ra /\ AfterReadAll(ra.read_total)
                  ELSE LET total == ra.read_total + io_res
                       IN IF total = ra.len      \* break
                          THEN /\ ra' = [ra EXCEPT !.read_total = total]
                               /\ AfterReadAll(total)
                          ELSE LET nra == [ra EXCEPT !.read_total = total,
                                                     !.offset = ra.offset + io_res,
                                                     !.next = ra.next + io_res]
                               IN /\ ra' = nra
                                  /\ rd' = rd
                                  /\ pc' = "readall"
                                  /\ hist' = hist
                                  /\ ops' = Append(done,
                                        ReadOp(op.fd, rd.v, nra.next,
                                               ReadAllCount(nra.len, total),
                                               nra.offset))
    /\ UNCHANGED <<iov, offset>>
    /\ ReadFrame

\* results the engine can complete the pending read with
ReadResults ==
    IF Pending
    THEN NegResults \cup ReadCounts(ops[Len(ops)].n, ops[Len(ops)].off)
    ELSE {}

Fds == 0..MaxFd

InitRead ==
    /\ kind = "read" /\ alive = TRUE
    \* the descriptor OpenRead stored, or -1 once Close has been called
    /\ fd_ \in {-1, MaxFd}
    /\ debug \in BOOLEAN
    /\ offs_ = 0 /\ pc = "idle" /\ iov = <<>> /\ offset = 0 /\ rd = NoRd /\ ra = NoRa
    /\ mem = <<>> /\ oob = {} /\ ops = <<>> /\ hist = <<>>
    /\ errno = 0 /\ created = FALSE
    /\ st_size = MaxSize /\ sb = -1 /\ file_size_ = MaxSize
    /\ cb = 0 /\ ae = NoAe /\ other = NoOther

NextRead ==
    \/ \E off \in Offsets, list \in BufLists : Read_Enter(off, list)
    \/ \E io_res \in ReadResults : ReadV_Complete(io_res)
    \/ \E io_res \in ReadResults : ReadAll_Complete(io_res)

SpecRead == InitRead /\ [][NextRead]_vars

\* =========================================== the life of one file object
\* the buffer lists of the calls made during the life of an object: their
\* entries are empty or MaxWEntry bytes long
IoLists == UNION {[1..n -> {0, MaxWEntry}] : n \in 0..MaxWIov}

LifeFrame == UNCHANGED <<debug, rd, ra, mem, oob, st_size, sb, file_size_, cb, ae, other>>

\* what OpenRead leaves alone
OpenReadFrame == UNCHANGED <<debug, rd, ra, mem, oob, st_size, cb, ae, other>>

\* fc->PrepOpenAt(AT_FDCWD, path, flags, mode)
OpenAtOp == Op("openat", -1, 0, 0, 0, 0)

\* ------------------------------------------------------------ CloseFile
\* if (fd > 0)
NeedsClose_always(fd) == TRUE
NeedsClose(fd) == fd > 0

CloseOp(fd) == Op("close", fd, 0, 0, 0, 0)

\* fd_ = -1;
ClosedFd_kept(fd) == fd
ClosedFd(fd) == -1

\* what CloseFile returns for the completion io_res of its close operation
CloseResult(io_res) ==
    IF IsError(io_res) THEN MakeUnexpected(ErrorCode(io_res)) ELSE NoError

\* close(fd): the system call, made directly and not through the engine
SysCloseOp(fd) == [Op("sys_close", fd, 0, 0, 0, 0) EXCEPT !.done = TRUE]

\* ------------------------------------- OpenWrite and WriteFileImpl::Open
OpenWrite_Enter ==
    /\ pc = "start" /\ kind = "write"
    /\ alive' = TRUE /\ fd_' = -1 /\ offs_' = 0     \* new WriteFileImpl{p, path}
    /\ ops' = Submit(OpenAtOp)
    /\ pc' = "open"
    /\ UNCHANGED <<kind, iov, offset, hist, errno, created>>
    /\ LifeFrame

\* fd_ = io_res;
OpenedFd(io_res) == io_res

OpenWrite_Complete(io_res) ==
    /\ pc = "open" /\ kind = "write" /\ Pending
    /\ ops' = Complete(io_res)
    /\ IF IsError(io_res)
       THEN \* impl is destroyed by its unique_ptr: CloseFile(-1, p)
            /\ alive' = FALSE
            /\ fd_' = fd_
            /\ pc' = "end"
            /\ hist' = Returns("OpenWrite", MakeUnexpected(ErrorCode(io_res)), ops')
       ELSE /\ alive' = alive
            /\ fd_' = OpenedFd(io_res)
            /\ pc' = "idle"
            /\ hist' = Returns("OpenWrite", NoError, ops')
    /\ UNCHANGED <<kind, offs_, iov, offset, errno, created>>
    /\ LifeFrame

\* ------------------------------------------------------------ OpenLinux
OpenLinux_Enter ==
    /\ pc = "start" /\ kind = "linux"
    /\ ops' = Submit(OpenAtOp)
    /\ pc' = "open"
    /\ UNCHANGED <<kind, alive, fd_, offs_, iov, offset, hist, errno, created>>
    /\ LifeFrame

OpenLinux_Complete(io_res) ==
    /\ pc = "open" /\ kind = "linux" /\ Pending
    /\ ops' = Complete(io_res)
    /\ IF IsError(io_res)
       THEN /\ UNCHANGED <<alive, fd_>>
            /\ pc' = "end"
            /\ hist' = Returns("OpenLinux", MakeUnexpected(ErrorCode(io_res)), ops')
       ELSE /\ alive' = TRUE                      \* make_unique<LinuxFileImpl>(io_res, p)
            /\ fd_' = io_res
            /\ pc' = "idle"
            /\ hist' = Returns("OpenLinux", NoError, ops')
    /\ UNCHANGED <<kind, offs_, iov, offset, errno, created>>
    /\ LifeFrame

\* ------------------------------------------------------------- OpenRead
OpenRead_Enter ==
    /\ pc = "start" /\ kind = "read"
    /\ ops' = Submit(OpenAtOp)
    /\ pc' = "open"
    /\ UNCHANGED <<kind, alive, fd_, offs_, iov, offset, hist, errno, created>>
    /\ LifeFrame

\* fc->PrepFadvise(fd, 0, 0, POSIX_FADV_SEQUENTIAL)
FadviseOp(fd) == Op("fadvise", fd, 0, 0, 0, 0)

\* the error OpenRead returns when the advice completed with io_res < 0:
\* int e = errno; ... error_code{e, system_category()}
AdviseError(io_res, e) == e

\* fstat(fd, &sb): sb.st_size is the length the file has at that moment
Fstat_zero(size) == 0
Fstat(size) == size

\* ReadFileImpl(int fd, size_t sz, Proactor* proactor) : file_size_(sz)
\* size_t Size() const { return file_size_; }
Size == file_size_

\* OpenRead resumed with the result of the open; st is what fstat does:
\* 0 when it succeeds, else the errno it sets
OpenRead_Opened(io_res, st) ==
    /\ pc = "open" /\ kind = "read" /\ Pending
    /\ IF IsError(io_res)
       THEN /\ ops' = Complete(io_res)
            /\ pc' = "end"
            /\ hist' = Returns("OpenRead", MakeUnexpected(ErrorCode(io_res)), ops')
            /\ errno' = errno
            /\ sb' = sb
       ELSE IF st # 0                             \* if (fstat(fd, &sb) < 0)
       THEN /\ errno' = st
            /\ ops' = Append(Complete(io_res), SysCloseOp(io_res))
            /\ pc' = "end"
            /\ hist' = Returns("OpenRead", MakeUnexpected(st), ops')
            /\ sb' = sb
       ELSE /\ errno' = errno
            /\ ops' = Append(Complete(io_res), FadviseOp(io_res))
            /\ pc' = "fadvise"
            /\ hist' = hist
            /\ sb' = Fstat(st_size)
    /\ UNCHANGED <<kind, alive, fd_, offs_, iov, offset, created, file_size_>>
    /\ OpenReadFrame

\* OpenRead resumed with the result of the advice.  The engine reports
\* the result in io_res and does not set errno: e is the value errno has
\* at that moment, left there by whatever ran on the thread before
OpenRead_Advised(io_res, e) ==
    /\ pc = "fadvise" /\ Pending
    /\ errno' = e
    /\ LET fd == ops[Len(ops)].fd
       IN IF IsError(io_res)
          THEN /\ ops' = Append(Complete(io_res), SysCloseOp(fd))
               /\ pc' = "end"
               /\ hist' = Returns("OpenRead",
                                  MakeUnexpected(AdviseError(io_res, errno')), ops')
               /\ UNCHANGED <<alive, fd_, created, file_size_>>
          ELSE /\ ops' = Complete(io_res)
               /\ alive' = TRUE                   \* new ReadFileImpl(fd, sb.st_size, p)
               /\ fd_' = fd
               /\ file_size_' = sb
               /\ created' = TRUE
               /\ pc' = "idle"
               /\ hist' = Returns("OpenRead", NoError, ops')
    /\ UNCHANGED <<kind, offs_, iov, offset, sb>>
    /\ OpenReadFrame

\* ------------- ReadFileImpl::Close, WriteFileImpl::Close, LinuxFileImpl::Close
Close_Enter ==
    /\ pc = "idle" /\ alive /\ Len(hist) < MaxCalls
    /\ IF NeedsClose(fd_)
       THEN /\ ops' = Submit(CloseOp(fd_))
            /\ pc' = "close"
            /\ UNCHANGED <<fd_, hist>>
       ELSE /\ ops' = ops
            /\ fd_' = ClosedFd(fd_)
            /\ pc' = "idle"
            /\ hist' = Returns("Close", NoError, ops)
    /\ UNCHANGED <<kind, alive, offs_, iov, offset, errno, created>>
    /\ LifeFrame

Close_Complete(io_res) ==
    /\ pc = "close" /\ Pending
    /\ ops' = Complete(io_res)
    /\ fd_' = ClosedFd(fd_)
    /\ pc' = "idle"
    /\ hist' = Returns("Close", CloseResult(io_res), ops')
    /\ UNCHANGED <<kind, alive, offs_, iov, offset, errno, created>>
    /\ LifeFrame

\* ------------------- ~ReadFileImpl, ~WriteFileImpl, ~LinuxFileImpl
Destroy_Enter ==
    /\ pc = "idle" /\ alive
    /\ IF NeedsClose(fd_)
       THEN /\ ops' = Submit(CloseOp(fd_))
            /\ pc' = "dtor"
            /\ UNCHANGED <<alive, hist>>
       ELSE /\ ops' = ops
            /\ alive' = FALSE
            /\ pc' = "end"
            /\ hist' = Returns("dtor", NoError, ops)
    /\ UNCHANGED <<kind, fd_, offs_, iov, offset, errno, created>>
    /\ LifeFrame

\* the error_code CloseFile returns is dropped
Destroy_Complete(io_res) ==
    /\ pc = "dtor" /\ Pending
    /\ ops' = Complete(io_res)
    /\ alive' = FALSE
    /\ pc' = "end"
    /\ hist' = Returns("dtor", NoError, ops')
    /\ UNCHANGED <<kind, fd_, offs_, iov, offset, errno, created>>
    /\ LifeFrame

\* ------------------------------------------- WriteFileImpl::WriteSome
\* fc->PrepWriteV(fd, iov, iovcnt, offset, flags)
WriteVOp_zero(list, fd, off) == Op("writev", fd, 0, 1, Len(list), TotalLen(list))
WriteVOp(list, fd, off) == Op("writev", fd, off, 1, Len(list), TotalLen(list))

\* offs_ += *res;
Advance_set(offs, n) == n
Advance(offs, n) == offs + n

\* if (res) { offs_ += *res; }
NextCursor_any(offs, io_res) == offs + io_res
NextCursor(offs, io_res) == IF IsError(io_res) THEN offs ELSE Advance(offs, io_res)

\* what ReadSomeInternal / WriteSomeInternal return for the completion io_res
SomeResult(io_res) ==
    IF IsError(io_res) THEN MakeUnexpected(ErrorCode(io_res)) ELSE Value(io_res)

WriteSome_Enter(list) ==
    /\ pc = "idle" /\ alive /\ kind = "write" /\ Len(hist) < MaxCalls
    /\ iov' = list
    /\ IF CheckFails(fd_, Len(list))
       THEN pc' = "fatal" /\ ops' = ops
       ELSE pc' = "write" /\ ops' = Submit(WriteVOp(list, fd_, offs_))
    /\ UNCHANGED <<kind, alive, fd_, offs_, offset, hist, errno, created>>
    /\ LifeFrame

WriteSome_Complete(io_res) ==
    /\ pc = "write" /\ Pending
    /\ ops' = Complete(io_res)
    /\ offs_' = NextCursor(offs_, io_res)
    /\ pc' = "idle"
    /\ hist' = Returns("WriteSome", SomeResult(io_res), ops')
    /\ UNCHANGED <<kind, alive, fd_, iov, offset, errno, created>>
    /\ LifeFrame

\* ------------------- LinuxFileImpl::WriteSome, LinuxFileImpl::ReadSome
LinuxSome_Enter(what, list, off) ==
    /\ pc = "idle" /\ alive /\ kind = "linux" /\ Len(hist) < MaxCalls
    /\ Cardinality({i \in 1..Len(hist) : hist[i].call \in {"ReadSome", "WriteSome"}}) < MaxIo
    /\ offset' = off
    /\ iov' = list
    /\ IF CheckFails(fd_, Len(list))
       THEN pc' = "fatal" /\ ops' = ops
       ELSE /\ pc' = "some"
            /\ ops' = Submit(IF what = "ReadSome"
                             THEN ReadVOp(list, fd_, 1, Len(list), off)
                             ELSE WriteVOp(list, fd_, off))
    /\ UNCHANGED <<kind, alive, fd_, offs_, hist, errno, created>>
    /\ LifeFrame

LinuxSome_Complete(io_res) ==
    /\ pc = "some" /\ Pending
    /\ ops' = Complete(io_res)
    /\ pc' = "idle"
    /\ hist' = Returns(IF ops[Len(ops)].kind = "readv" THEN "ReadSome" ELSE "WriteSome",
                       SomeResult(io_res), ops')
    /\ UNCHANGED <<kind, alive, fd_, offs_, iov, offset, errno, created>>
    /\ LifeFrame

\* ------------------------------------------------------ the engine's answers
\* a transfer of n bytes completes with an error or with 0..n bytes
ByteResults == IF Pending THEN NegResults \cup (0..ops[Len(ops)].n) ELSE {}
\* an open completes with an error or with a descriptor
OpenResults == NegResults \cup Fds
\* close and fadvise complete with an error or with 0
ZeroResults == NegResults \cup {0}

Init ==
    /\ kind \in {"read", "write", "linux"}
    /\ alive = FALSE /\ fd_ = -1 /\ offs_ = 0
    \* DCHECK is used by ReadFileImpl::Read only
    /\ debug \in IF kind = "read" THEN BOOLEAN ELSE {FALSE}
    /\ pc = "start" /\ iov = <<>> /\ offset = 0 /\ rd = NoRd /\ ra = NoRa
    /\ mem = <<>> /\ oob = {} /\ ops = <<>> /\ hist = <<>>
    /\ errno = 0
    /\ created = FALSE
    /\ st_size = MaxSize /\ sb = -1 /\ file_size_ = -1
    /\ cb = 0 /\ ae = NoAe /\ other = NoOther

Next ==
    \/ OpenWrite_Enter
    \/ \E io_res \in OpenResults : OpenWrite_Complete(io_res)
    \/ OpenLinux_Enter
    \/ \E io_res \in OpenResults : OpenLinux_Complete(io_res)
    \/ OpenRead_Enter
    \/ \E io_res \in OpenResults, st \in 0..MaxErrno : OpenRead_Opened(io_res, st)
    \/ \E io_res \in ZeroResults, e \in 0..MaxErrno : OpenRead_Advised(io_res, e)
    \/ \E off \in Offsets, list \in IoLists : Read_Enter(off, list)
    \/ \E io_res \in ReadResults : ReadV_Complete(io_res)
    \/ \E io_res \in ReadResults : ReadAll_Complete(io_res)
    \/ Close_Enter
    \/ \E io_res \in ZeroResults : Close_Complete(io_res)
    \/ Destroy_Enter
    \/ \E io_res \in ZeroResults : Destroy_Complete(io_res)
    \/ \E list \in IoLists : WriteSome_Enter(list)
    \/ \E io_res \in ByteResults : WriteSome_Complete(io_res)
    \/ \E what \in {"ReadSome", "WriteSome"}, list \in IoLists, off \in Offsets :
          LinuxSome_Enter(what, list, off)
    \/ \E io_res \in ByteResults : LinuxSome_Complete(io_res)

Spec == Init /\ [][Next]_vars

\* buffer lists whose entries are empty or MaxEntry bytes long
ExactLists == UNION {[1..n -> {0, MaxEntry}] : n \in 0..MaxIov}

\* ======================== two cooperative units that share one object
\* Both units run on the engine's thread; a unit runs until it suspends in
\* fc.Get().  The first unit is the one followed so far; the second calls
\* Close and WriteSome on the same object.
\* the first unit is suspended inside a call on the object
Suspended == pc \in {"close", "write", "readv", "readall"}

\* the object has been handed to its users
InUse == alive /\ (pc = "idle" \/ Suspended)

OtherFrame == UNCHANGED <<kind, alive, debug, pc, iov, offset, rd, ra, mem, oob, ops,
                          hist, errno, created, st_size, sb, file_size_, cb, ae>>

OtherPending == Len(other.ops) > 0 /\ ~other.ops[Len(other.ops)].done

\* the second unit's log once its fc.Get() returned io_res
OtherComplete(io_res) ==
    [other.ops EXCEPT ![Len(other.ops)].done = TRUE, ![Len(other.ops)].res = io_res]

\* the second unit begins a call
Began == [other EXCEPT !.calls = other.calls + 1,
                       !.at = <<Len(ops), Len(hist)>>,
                       !.raced = other.raced \/ Suspended]

\* a call of the first unit began since the second unit's call did
Overtaken == Len(ops) > other.at[1] \/ Len(hist) > other.at[2]

\* Close() called by the second unit
Other_Close_Enter ==
    /\ InUse /\ other.pc = "idle" /\ other.calls < MaxOther
    /\ IF NeedsClose(fd_)
       THEN /\ other' = [Began EXCEPT !.pc = "close",
                                      !.ops = Append(other.ops, CloseOp(fd_))]
            /\ fd_' = fd_
       ELSE /\ other' = [Began EXCEPT !.ret = NoError]
            /\ fd_' = ClosedFd(fd_)
    /\ offs_' = offs_
    /\ OtherFrame

Other_Close_Complete(io_res) ==
    /\ other.pc = "close" /\ OtherPending
    /\ other' = [other EXCEPT !.pc = "idle", !.ops = OtherComplete(io_res),
                              !.ret = CloseResult(io_res),
                              !.raced = other.raced \/ Overtaken]
    /\ fd_' = ClosedFd(fd_)
    /\ offs_' = offs_
    /\ OtherFrame

\* WriteFileImpl::WriteSome called by the second unit
Other_WriteSome_Enter(list) ==
    /\ InUse /\ kind = "write" /\ other.pc = "idle" /\ other.calls < MaxOther
    /\ IF CheckFails(fd_, Len(list))
       THEN other' = [Began EXCEPT !.pc = "fatal"]
       ELSE other' = [Began EXCEPT !.pc = "write",
                                  !.ops = Append(other.ops, WriteVOp(list, fd_, offs_))]
    /\ UNCHANGED <<fd_, offs_>>
    /\ OtherFrame

Other_WriteSome_Complete(io_res) ==
    /\ other.pc = "write" /\ OtherPending
    /\ other' = [other EXCEPT !.pc = "idle", !.ops = OtherComplete(io_res),
                              !.ret = SomeResult(io_res),
                              !.raced = other.raced \/ Overtaken]
    /\ offs_' = NextCursor(offs_, io_res)
    /\ fd_' = fd_
    /\ OtherFrame

\* results the engine can complete the second unit's transfer with
OtherByteResults ==
    IF OtherPending THEN NegResults \cup (0..other.ops[Len(other.ops)].n) ELSE {}

\* the first unit has calls left to make
MoreCalls == Len(hist) < MaxShared

\* the buffer list the two units write: one entry of MaxWEntry bytes
SharedLists == {<<MaxWEntry>>}

InitFibers == Init /\ kind \in {"read", "write"} /\ debug = FALSE

\* Close and WriteSome called by both units; fstat succeeds and errno is 0
NextFibers ==
    \/ OpenWrite_Enter
    \/ \E io_res \in OpenResults : OpenWrite_Complete(io_res)
    \/ OpenRead_Enter
    \/ \E io_res \in OpenResults : OpenRead_Opened(io_res, 0)
    \/ \E io_res \in ZeroResults : OpenRead_Advised(io_res, 0)
    \/ MoreCalls /\ Close_Enter
    \/ \E io_res \in ZeroResults : Close_Complete(io_res)
    \/ \E list \in SharedLists : MoreCalls /\ WriteSome_Enter(list)
    \/ \E io_res \in ByteResults : WriteSome_Complete(io_res)
    \/ Other_Close_Enter
    \/ \E io_res \in ZeroResults : Other_Close_Complete(io_res)
    \/ \E list \in SharedLists : Other_WriteSome_Enter(list)
    \/ \E io_res \in OtherByteResults : Other_WriteSome_Complete(io_res)

SpecFibers == InitFibers /\ [][NextFibers]_vars

\* OpenRead and Read in the first unit while the second unit calls Close
InitInflight == Init /\ kind = "read" /\ debug = FALSE

NextInflight ==
    \/ OpenRead_Enter
    \/ \E io_res \in NegResults \cup {MaxFd} : OpenRead_Opened(io_res, 0)
    \/ \E io_res \in ZeroResults : OpenRead_Advised(io_res, 0)
    \/ \E off \in Offsets, list \in ExactLists : Read_Enter(off, list)
    \/ \E io_res \in ReadResults : ReadV_Complete(io_res)
    \/ \E io_res \in ReadResults : ReadAll_Complete(io_res)
    \/ Other_Close_Enter
    \/ \E io_res \in ZeroResults : Other_Close_Complete(io_res)

SpecInflight == InitInflight /\ [][NextInflight]_vars

\* ==================== a read-only file whose underlying file changes
Sizes == 0..MaxSize

\* another process truncates or extends the underlying file
FileChanged(sz) ==
    /\ sz # st_size
    /\ st_size' = sz
    /\ UNCHANGED <<kind, alive, fd_, offs_, debug, pc, iov, offset, rd, ra, mem, oob,
                   ops, hist, errno, created, sb, file_size_, cb, ae, other>>

InitSize ==
    /\ kind = "read" /\ alive = FALSE /\ fd_ = -1 /\ offs_ = 0
    /\ debug = FALSE
    /\ pc = "start" /\ iov = <<>> /\ offset = 0 /\ rd = NoRd /\ ra = NoRa
    /\ mem = <<>> /\ oob = {} /\ ops = <<>> /\ hist = <<>>
    /\ errno = 0 /\ created = FALSE
    /\ st_size \in Sizes /\ sb = -1 /\ file_size_ = -1
    /\ cb = 0 /\ ae = NoAe /\ other = NoOther

NextSize ==
    \/ OpenRead_Enter
    \/ \E io_res \in OpenResults, st \in 0..MaxErrno : OpenRead_Opened(io_res, st)
    \/ \E io_res \in ZeroResults, e \in 0..MaxErrno : OpenRead_Advised(io_res, e)
    \/ \E off \in Offsets, list \in IoLists : Read_Enter(off, list)
    \/ \E io_res \in ReadResults : ReadV_Complete(io_res)
    \/ \E io_res \in ReadResults : ReadAll_Complete(io_res)
    \/ Close_Enter
    \/ \E io_res \in ZeroResults : Close_Complete(io_res)
    \/ Destroy_Enter
    \/ \E io_res \in ZeroResults : Destroy_Complete(io_res)
    \/ \E sz \in Sizes : FileChanged(sz)

SpecSize == InitSize /\ [][NextSize]_vars

\* ================================ LinuxFile::Write and LinuxFile::Read
\* The callback cb the two functions hand to the exact-transfer driver calls
\* WriteSome / ReadSome at the offset it captured and keeps that offset:
\* if (res) { offset += *res; }
CbAdvance_none(off, n) == off
CbAdvance(off, n) == off + n

\* the operation cb(iov, iovcnt) submits at offset off: over the entries
\* first.. of the caller's list, or over the one-entry list made of the
\* last count bytes of entry first (next > 0)
CbOp(what, first, cnt, next, nbytes, off) ==
    [Op(IF what = "Write" THEN "writev" ELSE "readv", fd_, off, first, cnt, nbytes)
        EXCEPT !.next = next]

\* The driver, io::ApplyExactly(iov, iovcnt, cb), is declared outside this
\* file.  It calls cb over the remaining entries until every entry is
\* consumed, stops at the first error, and finishes an entry a transfer
\* ended in with calls over that entry's remainder.  It returns an
\* error_code and is given nothing that tells a read from a write: a
\* zero-byte transfer is a short transfer like any other.
\* ExactLoop: the list-level loop at entry v, after the log log0, with the
\* callback's offset at off
ExactLoop(what, v, log0, off) ==
    IF v > Len(iov')
    THEN /\ pc' = "idle"
         /\ ops' = log0
         /\ hist' = Returns(what, NoError, log0)
         /\ ae' = [what |-> what, v |-> v, next |-> 0, count |-> 0]
    ELSE IF CheckFails(fd_, Len(iov') - v + 1)
    THEN /\ pc' = "fatal"
         /\ ops' = log0
         /\ hist' = hist
         /\ ae' = [what |-> what, v |-> v, next |-> 0, count |-> 0]
    ELSE /\ pc' = "exact"
         /\ ops' = Append(log0, CbOp(what, v, Len(iov') - v + 1, 0,
                                     SumLen(iov', v, Len(iov')), off))
         /\ hist' = hist
         /\ ae' = [what |-> what, v |-> v, next |-> 0, count |-> 0]

ExactFrame == UNCHANGED <<kind, alive, fd_, offs_, debug, rd, ra, mem, oob, errno,
                          created, st_size, sb, file_size_, other>>

\* Write or Read has not been called on the object
NoExactYet == \A i \in 1..Len(hist) : hist[i].call \notin {"Write", "Read"}

\* LinuxFile::Write / LinuxFile::Read up to the first suspension
Exact_Enter(what, off, list) ==
    /\ pc = "idle" /\ kind = "linux" /\ alive /\ NoExactYet
    /\ offset' = off
    /\ iov' = list
    /\ cb' = off                                  \* [this, flags, offset]
    /\ ExactLoop(what, 1, ops, off)
    /\ ExactFrame

\* the driver resumed with what the callback returned for io_res
Exact_Complete(io_res) ==
    /\ pc = "exact" /\ Pending
    /\ io_res = 0 => Len(ops) < MaxTries
    /\ iov' = iov
    /\ LET done == Complete(io_res)
           what == ae.what
       IN IF IsError(io_res)
          THEN /\ cb' = cb
               /\ pc' = "idle"
               /\ ops' = done
               /\ hist' = Returns(what, MakeUnexpected(ErrorCode(io_res)), done)
               /\ ae' = ae
          ELSE /\ cb' = CbAdvance(cb, io_res)
               /\ IF ae.count = 0
                  THEN LET w == Walk(ae.v, Len(iov) - ae.v + 1, io_res)
                       IN IF w[3] = 0
                          THEN ExactLoop(what, w[1], done, cb')
                          ELSE /\ ae' = [what |-> what, v |-> w[1], next |-> w[3],
                                         count |-> iov[w[1]] - w[3]]
                               /\ pc' = "exact"
                               /\ hist' = hist
                               /\ ops' = Append(done, CbOp(what, w[1], 1, ae'.next,
                                                           ae'.count, cb'))
                  ELSE IF ae.count = io_res
                  THEN ExactLoop(what, ae.v + 1, done, cb')
                  ELSE /\ ae' = [ae EXCEPT !.next = ae.next + io_res,
                                           !.count = ae.count - io_res]
                       /\ pc' = "exact"
                       /\ hist' = hist
                       /\ ops' = Append(done, CbOp(what, ae.v, 1, ae'.next,
                                                   ae'.count, cb'))
    /\ UNCHANGED offset
    /\ ExactFrame

InitExact ==
    /\ kind = "linux" /\ alive = TRUE
    /\ fd_ = MaxFd                                \* LinuxFileImpl(fd, p)
    /\ debug = FALSE
    /\ offs_ = 0 /\ pc = "idle" /\ iov = <<>> /\ offset = 0 /\ rd = NoRd /\ ra = NoRa
    /\ mem = <<>> /\ oob = {} /\ ops = <<>> /\ hist = <<>>
    /\ errno = 0 /\ created = FALSE
    /\ st_size = MaxSize /\ sb = -1 /\ file_size_ = -1
    /\ cb = 0 /\ ae = NoAe /\ other = NoOther

NextExact ==
    \/ \E what \in {"Write", "Read"}, off \in Offsets, list \in ExactLists :
          Exact_Enter(what, off, list)
    \/ \E io_res \in ByteResults : Exact_Complete(io_res)

SpecExact == InitExact /\ [][NextExact]_vars

\* ================================================================ claims
\* ---- the exact-transfer read (under SpecRead)
Returned == pc = "idle" /\ hist # <<>>
LastOp == ops[Len(ops)]

\* the bytes transferred by the completions observed so far
RECURSIVE SumRes(_)
SumRes(log) ==
    IF log = <<>> THEN 0
    ELSE LET o == log[Len(log)]
         IN (IF o.done /\ o.res > 0 THEN o.res ELSE 0) + SumRes(SubSeq(log, 1, Len(log) - 1))

\* the values stored in the buffer entries, concatenated in list order
RECURSIVE Concat(_)
Concat(m) == IF m = <<>> THEN <<>> ELSE Concat(SubSeq(m, 1, Len(m) - 1)) \o m[Len(m)]

\* C1 (as claimed): a Read that returns a count returns exactly L, or less
\* than L only after a zero-byte completion; the count is the sum of the
\* completions' byte counts and never exceeds L
C1_ExactTransfer ==
    (Returned /\ ret.kind = "value") =>
        /\ ret.val = SumRes(ops)
        /\ ret.val <= TotalLen(iov)
        /\ (ret.val < TotalLen(iov) => (Len(ops) > 0 /\ LastOp.res = 0))

\* C2 (as claimed): when Read returns n, the first n bytes of the
\* concatenated entries are the file bytes [offset, offset + n), no file byte
\* is stored twice and nothing is stored outside the entries
C2_BytePlacement ==
    (Returned /\ ret.kind = "value" /\ Len(ops) > 0) =>
        LET c == Concat(mem)
            n == ret.val
        IN /\ n <= Len(c)
           /\ \A k \in 1..Min(n, Len(c)) : c[k] = offset + k - 1
           /\ \A j, k \in 1..Len(c) : (j # k /\ c[j] # -1) => c[j] # c[k]
           /\ oob = {}

\* C3: a zero-byte list-level completion, or a retry loop that ended short
\* of the entry's remainder, is followed by no operation and makes Read
\* return the bytes transferred so far as a value
C3_EofIsPartialSuccess ==
    /\ \A i \in 1..Len(ops) :
          (ops[i].kind = "readv" /\ ops[i].done /\ ops[i].res = 0) =>
              /\ i = Len(ops)
              /\ Returned
              /\ ret = Value(SumRes(ops))
    /\ (Len(ops) > 0 /\ LastOp.kind = "read" /\ LastOp.done /\ LastOp.res >= 0
        /\ ra.read_total < ra.len) =>
              /\ Returned
              /\ ret = Value(SumRes(ops))
    /\ (Len(ops) > 1 /\ LastOp.kind = "readv" /\ ops[Len(ops) - 1].kind = "read") =>
              ra.read_total >= ra.len

C3_Witness ==
    /\ Returned /\ ret.kind = "value"
    /\ ret.val > 0 /\ ret.val < TotalLen(iov)
    /\ LastOp.kind = "read" /\ LastOp.res = 0 /\ ra.read_total < ra.len
    /\ \E i \in 1..Len(ops) : ops[i].kind = "readv" /\ ops[i].res > 0

\* C9: a negative completion of any operation of Read ends the call with the
\* error -r and no further operation, whatever was transferred before
C9_ErrorPropagation ==
    \A i \in 1..Len(ops) :
        (ops[i].done /\ ops[i].res < 0) =>
            /\ i = Len(ops)
            /\ Returned
            /\ ret = MakeUnexpected(-ops[i].res)

C9_Witness ==
    /\ Returned /\ ret.kind = "error"
    /\ LastOp.kind = "read" /\ LastOp.res = -1 /\ ret.val = 1
    /\ SumRes(ops) > 1

\* ---- the life of a file object (under Spec)
\* the operations submitted during the call that returned as hist[j]
PrevAt(j) == IF j = 1 THEN 0 ELSE hist[j - 1].at
IssuedBy(j) == (PrevAt(j) + 1)..hist[j].at

\* C4: once Close has returned, with or without an error, a later Close or
\* the destructor submits no operation and reports no error
C4_IdempotentClose ==
    /\ \A i, j \in 1..Len(hist) :
          (i < j /\ hist[i].call = "Close" /\ hist[j].call \in {"Close", "dtor"}) =>
              /\ IssuedBy(j) = {}
              /\ hist[j].ret = NoError
    /\ pc \in {"close", "dtor"} => \A i \in 1..Len(hist) : hist[i].call # "Close"

C4_Witness ==
    /\ pc = "end" /\ Len(hist) = 4
    /\ hist[2].call = "Close" /\ hist[2].ret.kind = "error" /\ IssuedBy(2) # {}
    /\ hist[3].call = "Close" /\ hist[4].call = "dtor"

\* the close operations and close system calls made for descriptor fd
ClosesOf(fd) == {i \in 1..Len(ops) : ops[i].kind \in {"close", "sys_close"} /\ ops[i].fd = fd}

\* C5 (as claimed): when the object is gone, the descriptor a successful
\* open returned, 0 included, has had exactly one close issued for it
C5_OneClosePerDescriptor ==
    (pc = "end" /\ ops[1].res >= 0) => Cardinality(ClosesOf(ops[1].res)) = 1

\* the byte counts of the successful WriteSome calls, added up
RECURSIVE SumWrites(_)
SumWrites(h) ==
    IF h = <<>> THEN 0
    ELSE LET e == h[Len(h)]
         IN (IF e.call = "WriteSome" /\ e.ret.kind = "value" THEN e.ret.val ELSE 0)
            + SumWrites(SubSeq(h, 1, Len(h) - 1))

\* C6: the cursor of a write file is the sum of the counts its WriteSome
\* calls returned, 0 after open, and a WriteSome writes at the cursor
C6_CursorSum ==
    kind = "write" =>
        /\ offs_ = SumWrites(hist)
        /\ pc = "write" => LastOp.off = SumWrites(hist)

C6_Witness ==
    /\ kind = "write" /\ pc = "write" /\ Len(hist) = 2
    /\ hist[2].call = "WriteSome" /\ hist[2].ret = Value(1) /\ ops[2].n = 2
    /\ LastOp.kind = "writev" /\ LastOp.off = 1

SomeCalls == {"WriteSome", "ReadSome"}

C8_OpenReadFailure ==
    (kind = "read" /\ hist # <<>> /\ hist[1].ret.kind = "error") =>
        IF ops[1].res < 0
        THEN /\ hist[1].ret = MakeUnexpected(-ops[1].res)
             /\ \A i \in 1..Len(ops) : ops[i].kind \notin {"close", "sys_close"}
        ELSE /\ Cardinality(ClosesOf(ops[1].res)) = 1
             /\ ~created /\ ~alive
             /\ \A i \in 1..Len(ops) :
                   ops[i].kind = "fadvise" => hist[1].ret = MakeUnexpected(-ops[i].res)
             /\ (\A i \in 1..Len(ops) : ops[i].kind # "fadvise") =>
                   hist[1].ret = MakeUnexpected(errno)

\* C10 (as claimed): a Read, WriteSome or ReadSome on an object whose
\* descriptor is negative, or a WriteSome or ReadSome with an empty buffer
\* list, submits nothing and does not return
C10_FatalPreconditions ==
    /\ \A i \in 1..Len(ops) :
          ops[i].kind \in {"readv", "writev", "read"} => (ops[i].fd >= 0 /\ ops[i].cnt > 0)
    /\ \A i, j \in 1..Len(hist) :
          (i < j /\ hist[i].call = "Close") => hist[j].call \notin SomeCalls \cup {"Read"}
    /\ \A j \in 1..Len(hist) : hist[j].call \in SomeCalls => IssuedBy(j) # {}

\* ---- the generic file's exact transfer (under SpecExact)
\* the bytes transferred by the operations before operation i
Before(i) == SumRes(SubSeq(ops, 1, i - 1))

C12_SizeInvariant ==
    [][/\ (pc = "open" /\ pc' = "fadvise") => sb' = st_size
       /\ (~created /\ created') => Size' = sb
       /\ created => Size' = Size]_vars

C12_Witness ==
    /\ created /\ pc = "idle" /\ Len(hist) = 3
    /\ hist[2].call = "Read" /\ hist[2].ret = Value(1) /\ TotalLen(iov) = 2
    /\ hist[3].call = "Close"
    /\ Size = MaxSize /\ st_size = 0

\* ---- the offsets of Read's operations (under SpecRead)
\* every byte of entry j has been stored / no byte of entry j has been stored
Full(j) == \A p \in 1..iov[j] : mem[j][p] # -1
Untouched(j) == \A p \in 1..iov[j] : mem[j][p] = -1

\* C13: every operation of Read, list-level or of the retry loop, is at
\* offset plus the bytes the earlier operations transferred; a list-level
\* read covers the entries from its first one to the end of the list, and
\* when it is submitted the entries before it are full and the ones it
\* covers hold nothing yet
C13_OperationOffsets ==
    /\ \A i \in 1..Len(ops) :
          /\ ops[i].off = offset + Before(i)
          /\ ops[i].kind = "readv" => ops[i].cnt = Len(iov) - ops[i].v + 1
          /\ ops[i].kind = "read" => ops[i].cnt = 1
    /\ pc = "readv" =>
          /\ \A j \in 1..(LastOp.v - 1) : Full(j)
          /\ \A j \in LastOp.v..Len(iov) : Untouched(j)

C13_Witness ==
    /\ pc = "readv" /\ offset = 1 /\ Len(ops) = 4
    /\ ops[1].kind = "readv" /\ ops[2].kind = "read" /\ ops[3].kind = "read"
    /\ LastOp.v = 2 /\ LastOp.off = 4 /\ iov[2] > 0

\* ---- the single-buffer retry loop (under SpecRead)
\* C14 (as claimed): while ReadAll has a read in flight for an entry
\* remainder of len bytes of which k are filled, k < len, the read starts at
\* position k of the remainder and asks for at most len - k bytes; the
\* running total never exceeds len
C14_RetryBound ==
    /\ pc = "readall" =>
          /\ ra.read_total < ra.len
          /\ LastOp.next = iov[rd.v] - ra.len + ra.read_total
          /\ LastOp.n <= ra.len - ra.read_total
    /\ ra.read_total <= ra.len

\* ---- termination of Read (under SpecRead)
\* C15 (as claimed): Read comes to an end without the file ever reporting
\* end-of-file, because what is left to do shrinks: every list-level read
\* starts at a later entry than the one before it, the retry loop has a
\* read in flight only while its remainder is not filled, and the bytes
\* transferred, each completion adding at least one, never exceed L
C15_Termination ==
    /\ \A i, j \in 1..Len(ops) :
          (i < j /\ ops[i].kind = "readv" /\ ops[j].kind = "readv") => ops[i].v < ops[j].v
    /\ pc = "readall" => ra.read_total < ra.len
    /\ SumRes(ops) <= TotalLen(iov)

\* ---- the write cursor (under Spec)
\* C16: a step that ends a WriteSome with an error leaves the cursor as it
\* was; a step that changes the cursor is the end of a WriteSome that
\* returned a positive count; the cursor never decreases
C16_CursorFrame ==
    [][kind = "write" =>
          LET ended == pc = "write" /\ pc' = "idle"
              r == ops'[Len(ops')].res
          IN /\ (ended /\ r < 0) => offs_' = offs_
             /\ offs_' # offs_ =>
                   /\ ended /\ r > 0
                   /\ hist'[Len(hist')] = [call |-> "WriteSome", ret |-> Value(r),
                                           at |-> Len(ops)]
             /\ offs_' >= offs_]_vars

C16_Witness ==
    /\ kind = "write" /\ pc = "end" /\ Len(hist) = 4 /\ offs_ = 1
    /\ hist[2] = [call |-> "WriteSome", ret |-> Value(1), at |-> 2]
    /\ hist[3] = [call |-> "WriteSome", ret |-> MakeUnexpected(1), at |-> 3]
    /\ hist[4].call = "dtor"

\* ---- two units on one object (under SpecFibers)
\* a call of one unit began while a call of the other was in progress
Raced == other.raced \/ (other.pc \in {"close", "write"} /\ Overtaken)

\* the close operations in a log
ClosesIn(log) == {i \in 1..Len(log) : log[i].kind = "close"}

\* C17 (as claimed): whatever the interleaving of the two units' Close
\* calls, at most one close operation is submitted for the object
C17_CloseUnderInterleaving ==
    Cardinality(ClosesIn(ops)) + Cardinality(ClosesIn(other.ops)) <= 1

\* C17 (amended): each unit submits at most one close operation for the
\* object, a unit submits one only for a descriptor that is still fd_, and
\* two are submitted in all only when a call of one unit began while a call
\* of the other was in progress
C17_CloseWithoutOverlap ==
    /\ Cardinality(ClosesIn(ops)) <= 1
    /\ Cardinality(ClosesIn(other.ops)) <= 1
    /\ (ClosesIn(ops) # {} /\ ClosesIn(other.ops) # {}) => Raced
    /\ \A i \in ClosesIn(ops) : ops[i].fd = ops[1].res
    /\ \A j \in ClosesIn(other.ops) : other.ops[j].fd = ops[1].res
    /\ (pc = "idle" /\ other.pc = "idle" /\ ~Raced /\ fd_ = -1) =>
          Cardinality(ClosesIn(ops)) + Cardinality(ClosesIn(other.ops))
              = IF ops[1].res > 0 THEN 1 ELSE 0

C17_Witness ==
    /\ pc = "idle" /\ other.pc = "idle" /\ fd_ = -1 /\ Raced
    /\ Len(hist) = 2 /\ hist[2].call = "Close" /\ hist[2].ret = NoError
    /\ other.ret = MakeUnexpected(1)
    /\ ClosesIn(ops) # {} /\ ClosesIn(other.ops) # {}

\* the successful writes in a log, as <<offset, count>>
WritesIn(log) ==
    {<<log[i].off, log[i].res>> : i \in {k \in 1..Len(log) :
        log[k].kind = "writev" /\ log[k].done /\ log[k].res > 0}}
Range(w) == w[1]..(w[1] + w[2] - 1)

\* the byte ranges of the first unit's and of the second unit's writes do
\* not overlap, and together they are [0, cursor)
Serialized ==
    LET mine == WritesIn(ops)
        theirs == WritesIn(other.ops)
    IN /\ \A a, b \in mine \cup theirs : a # b => Range(a) \cap Range(b) = {}
       /\ \A a \in mine, b \in theirs : Range(a) \cap Range(b) = {}
       /\ Cardinality(mine) = Cardinality({i \in 1..Len(ops) :
              ops[i].kind = "writev" /\ ops[i].done /\ ops[i].res > 0})
       /\ Cardinality(theirs) = Cardinality({i \in 1..Len(other.ops) :
              other.ops[i].kind = "writev" /\ other.ops[i].done /\ other.ops[i].res > 0})
       /\ UNION {Range(w) : w \in mine \cup theirs} = 0..(offs_ - 1)

\* C18 (as claimed): whatever the interleaving of the units' WriteSome
\* calls, the byte ranges of the successful ones are pairwise disjoint and
\* cover [0, cursor)
C18_WriteSerialization == kind = "write" => Serialized

\* C18 (amended): the same, for WriteSome calls none of which began while a
\* call of the other unit was in progress
C18_SerializedWithoutOverlap == (kind = "write" /\ ~Raced) => Serialized

C18_Witness ==
    /\ kind = "write" /\ ~Raced /\ pc = "idle" /\ other.pc = "idle"
    /\ WritesIn(ops) = {<<0, 1>>, <<3, 2>>}
    /\ WritesIn(other.ops) = {<<1, 2>>}
    /\ offs_ = 5

\* ---- one request in flight per unit (under SpecInflight)
\* the operations of a log that are submitted and not completed
InFlight(log) == {i \in 1..Len(log) : ~log[i].done}

\* C19: a unit has at most one operation in flight, the last one it
\* submitted, and has one exactly while it is suspended; the completion of
\* an operation is taken once, in a step of the unit that submitted it and
\* while that unit is suspended, and is never changed afterwards
C19_SingleInFlight ==
    /\ [](/\ InFlight(ops) \subseteq {Len(ops)}
          /\ InFlight(other.ops) \subseteq {Len(other.ops)}
          /\ InFlight(ops) # {} <=> pc \in {"open", "fadvise", "readv", "readall"}
          /\ InFlight(other.ops) # {} <=> other.pc = "close")
    /\ [][/\ \A i \in 1..Len(ops) :
               /\ ops[i].done => ops'[i] = ops[i]
               /\ (~ops[i].done /\ ops'[i].done) =>
                     /\ pc \in {"open", "fadvise", "readv", "readall"}
                     /\ other' = other
          /\ \A i \in 1..Len(other.ops) :
               /\ other.ops[i].done => other.ops'[i] = other.ops[i]
               /\ (~other.ops[i].done /\ other.ops'[i].done) =>
                     /\ other.pc = "close" /\ other.pc' = "idle"
                     /\ UNCHANGED <<pc, ops, hist>>
          /\ Len(ops') > Len(ops) => other' = other
          /\ Len(other.ops') > Len(other.ops) => UNCHANGED <<pc, ops, hist>>]_vars

C19_Witness ==
    /\ pc = "readall" /\ other.pc = "close"
    /\ Len(ops) = 5 /\ ops[1].kind = "openat" /\ ops[2].kind = "fadvise"
    /\ ops[3].kind = "readv" /\ ops[4].kind = "read" /\ ops[5].kind = "read"
    /\ ~ops[5].done /\ ~other.ops[1].done /\ Overtaken

====
